---- MODULE Spec2Model ----
(***************************************************************************)
(* Model of the EV3 UART sensor-side protocol parser                       *)
(* (EV3UartProtocolParserSensorSide::Parser).                              *)
(*                                                                         *)
(* The parser is a two-state byte-at-a-time state machine.  The model      *)
(* keeps the parser's four data members as variables, update() and         *)
(* reset_state() as actions, and a caller that feeds bytes.  Bytes are     *)
(* naturals in 0..255; every uint8_t computation is reduced modulo 256.    *)
(***************************************************************************)
EXTENDS Integers, Sequences, FiniteSets, TLC

VARIABLES
    buffer,                  \* uint8_t buffer[BUFFER_LEN]
    message_payload_length,  \* uint8_t message_payload_length
    message_pending_bytes,   \* uint8_t message_pending_bytes
    current_state,           \* State current_state
    rtn,                     \* ParserReturn of the most recent update() call
    op,                      \* caller: last operation ("init", "update", "reset")
    called_in,               \* caller: current_state at entry of the last update()
    sent,                    \* caller: bytes fed since the last message boundary
    after_terminal,          \* caller: the call before the last update() was an
                             \* update() that reported a terminal outcome
    first_call,              \* caller: the last update() was the first of a new parser
    frames,                  \* caller: number of CMD headers sent so far
    wild,                    \* caller: the last frame ended in an arbitrary checksum byte
    last_accepted,           \* caller: last header byte analyze_header accepted
    abandoned,               \* caller: <<payload length, pending>> of a frame cut by reset
    queue,                   \* stream caller: bytes of the current message still to feed
    kind,                    \* stream caller: expected outcome of the current message
    msgs,                    \* stream caller: expected outcomes of the messages fed
    terms                    \* stream caller: reported outcomes, fillers and
                             \* INSUFFICIENT_DATA left out

vars == <<buffer, message_payload_length, message_pending_bytes, current_state,
          rtn, op, called_in, sent, after_terminal, first_call,
          frames,
          wild, last_accepted, abandoned, queue, kind, msgs, terms>>

----------------------------------------------------------------------------
(* Bounds of the exploration.                                              *)

\* Number of CMD frames the caller starts in one run.
MaxFrames == 2

\* reset_state() may cut short a frame in progress only among the first
\* MaxCutFrame frames of a run; with no frame in progress it is always allowed.
MaxCutFrame == 1

\* Payload byte values of a one-byte payload: zero and a byte that is itself a
\* valid header.  Longer payloads carry the counting pattern of the unit tests
\* (std::iota from 0).
PayloadBytes == {0, 68}

\* Offsets added (mod 256) to the correct checksum for a frame's last byte;
\* 0 is the well-formed frame, 1 the corruption the unit tests apply.
Deltas == {0, 1}

\* A buffer byte that was never written: uint8_t buffer[BUFFER_LEN] has no
\* initialiser, so its value is indeterminate until update() stores a byte.
Indeterminate == -1

----------------------------------------------------------------------------
(* uint8_t arithmetic.                                                     *)

Byte == 0..255

RECURSIVE BitAnd(_, _)
BitAnd(a, b) ==
    IF a = 0 \/ b = 0 THEN 0
    ELSE (a % 2) * (b % 2) + 2 * BitAnd(a \div 2, b \div 2)

RECURSIVE BitOr(_, _)
BitOr(a, b) ==
    IF a = 0 THEN b
    ELSE IF b = 0 THEN a
    ELSE (IF a % 2 = 1 \/ b % 2 = 1 THEN 1 ELSE 0) + 2 * BitOr(a \div 2, b \div 2)

RECURSIVE BitXor(_, _)
BitXor(a, b) ==
    IF a = 0 THEN b
    ELSE IF b = 0 THEN a
    ELSE ((a + b) % 2) + 2 * BitXor(a \div 2, b \div 2)

ShiftRight(a, n) == a \div (2 ^ n)

ShiftLeft8(a, n) == (a * (2 ^ n)) % 256

----------------------------------------------------------------------------
(* Collaborators from the EV3UartGenerator library (magics.hpp,            *)
(* framing.hpp): the header catalog and the frame check sequence.          *)

SYS_BASE == 0       \* Magics::SYS::SYS_BASE, message type bits 00
CMD_BASE == 64      \* Magics::CMD::CMD_BASE, message type bits 01
DATA_BASE == 192    \* Magics::DATA::DATA_BASE, message type bits 11
SYS_NACK == 2       \* Magics::SYS::NACK
SYS_ACK == 4        \* Magics::SYS::ACK
CMD_TYPE == 0       \* Magics::CMD::TYPE
CMD_SELECT == 3     \* Magics::CMD::SELECT
CMD_WRITE == 4      \* Magics::CMD::WRITE

\* Framing::BUFFER_MIN: 1 header + 32 payload + 1 checksum.
BUFFER_MIN == 34

\* Framing::checksum(buf, n): 0xFF xor-ed with the first n bytes of buf.
RECURSIVE checksum(_, _)
checksum(buf, n) ==
    IF n = 0 THEN 255 ELSE BitXor(checksum(buf, n - 1), buf[n - 1])

----------------------------------------------------------------------------
(* EV3UartProtocolParserSensorSide.hpp                                     *)

BUFFER_LEN == BUFFER_MIN

\* Variant: linear in the length code instead of a power of two.
two_pow_linear(val) == (val + 1) % 256

two_pow(val) == ShiftLeft8(1, val)

STATE_START == 0
WAIT_HEADER == 0
WAIT_CHECKSUM == 1
STATE_END == 1

\* Variant: every state is followed by STATE_START.
next_state_to_start(st) == STATE_START

\* Variant: the wrap-around to STATE_START is missing.
next_state_no_wrap(st) == st + 1

next_state(st) == IF st # STATE_END THEN st + 1 ELSE STATE_START

ParseResult ==
    {"INSUFFICIENT_DATA", "RECEIVED_INVALID_HEADER", "RECEIVED_SYS_ACK",
     "RECEIVED_SYS_NACK", "RECEIVED_CMD_SELECT", "RECEIVED_CMD_WRITE",
     "RECEIVED_CMD_INVALID_FCS"}

\* ParserReturn rtn { }: value-initialised, res is the enumerator with value 0.
ParserReturn == [res |-> "INSUFFICIENT_DATA", hdr |-> 0, len |-> 0]

----------------------------------------------------------------------------
(* EV3UartProtocolParserSensorSide.cpp                                     *)

\* Variant: the shifted header is not masked down to the length code.
payload_length_unmasked(hdr) == two_pow(ShiftRight(hdr, 3))

\* Variant: the length code is taken from bit 2 on.
payload_length_shift2(hdr) == two_pow(BitAnd(ShiftRight(hdr, 2), 7))

payload_length(hdr) == two_pow(BitAnd(ShiftRight(hdr, 3), 7))

\* Variant: the length code is not masked out.
header_sanitized_unmasked(hdr) == hdr

\* analyze_header: header_sanitized, (hdr & 0xc7).
header_sanitized(hdr) == BitAnd(hdr, 199)

\* analyze_header: payload_len_code, (hdr >> 0x03) & 0x07.
payload_len_code(hdr) == BitAnd(ShiftRight(hdr, 3), 7)

\* Variant: length code 6 is let through.
write_code_valid_upto6(code) == code <= 6

\* analyze_header: the length codes a CMD|WRITE header may carry.
write_code_valid(code) == code < 6

\* Variant: every byte of the SYS type with length code 0 is declared valid.
analyze_header_any_sys(hdr) ==
    [header_valid |-> header_sanitized(hdr) < 8 /\ payload_len_code(hdr) = 0,
     header_sanitized |-> header_sanitized(hdr),
     payload_length |-> 0]

\* Variant: the header is declared valid without looking at its type or its
\* length code.
analyze_header_unchecked(hdr) ==
    [header_valid |-> TRUE,
     header_sanitized |-> header_sanitized(hdr),
     payload_length |-> payload_length(hdr)]

analyze_header(hdr) ==
    LET info == [header_valid |-> FALSE,
                 header_sanitized |-> header_sanitized(hdr),
                 payload_length |-> 0]
        code == payload_len_code(hdr)
    IN  CASE info.header_sanitized = BitOr(SYS_BASE, SYS_ACK) ->
               IF code = 0
               THEN [info EXCEPT !.header_valid = TRUE] ELSE info
          [] info.header_sanitized = BitOr(SYS_BASE, SYS_NACK) ->
               IF code = 0
               THEN [info EXCEPT !.header_valid = TRUE] ELSE info
          [] info.header_sanitized = BitOr(CMD_BASE, CMD_SELECT) ->
               IF code = 0
               THEN [info EXCEPT !.header_valid = TRUE,
                                 !.payload_length = payload_length(hdr)]
               ELSE info
          [] info.header_sanitized = BitOr(CMD_BASE, CMD_WRITE) ->
               IF write_code_valid(code)
               THEN [info EXCEPT !.header_valid = TRUE,
                                 !.payload_length = payload_length(hdr)]
               ELSE info
          [] OTHER -> info

\* The parser object: its four data members.
Parser(buf, mpl, mpb, st) ==
    [buffer |-> buf, message_payload_length |-> mpl,
     message_pending_bytes |-> mpb, current_state |-> st]

\* Parser::Parser(): the buffer is left uninitialised, the other members take
\* their default member initialisers.
Constructed ==
    Parser([i \in 0..(BUFFER_LEN - 1) |-> Indeterminate], 0, 0, STATE_START)

\* Variant: one byte too many is counted.
pending_bytes_extra(len) == (len + 2) % 256

\* Variant: the FCS byte is not counted.
pending_bytes_no_fcs(len) == len % 256

\* update(): message_pending_bytes for an accepted CMD header, + 1 FCS.
pending_bytes(len) == (len + 1) % 256

\* Variant: the first payload byte is cleared along with storing the header.
store_header_and_clear(buf, in) == [buf EXCEPT ![0] = in, ![1] = 0]

\* Variant: the header candidate is stored only into a buffer never written.
store_header_once(buf, in) ==
    IF buf[0] = Indeterminate THEN [buf EXCEPT ![0] = in] ELSE buf

\* Variant: the header candidate is not stored.
store_header_skipped(buf, in) == buf

\* update(): buffer[0] = input.
store_header(buf, in) == [buf EXCEPT ![0] = in]

\* update(), case State::WAIT_HEADER.
update_wait_header(p, in) ==
    LET info == analyze_header(in)
        buf == store_header(p.buffer, in)
        sys_res ==
            CASE BitAnd(info.header_sanitized, 7) = SYS_NACK -> "RECEIVED_SYS_NACK"
              [] BitAnd(info.header_sanitized, 7) = SYS_ACK -> "RECEIVED_SYS_ACK"
              [] OTHER -> ParserReturn.res
    IN  IF info.header_valid
        THEN IF info.payload_length > 0
             THEN [p |-> Parser(buf, info.payload_length,
                                pending_bytes(info.payload_length),
                                next_state(p.current_state)),
                   res |-> "INSUFFICIENT_DATA", len |-> ParserReturn.len]
             ELSE [p |-> [p EXCEPT !.buffer = buf],
                   res |-> sys_res, len |-> ParserReturn.len]
        ELSE [p |-> [p EXCEPT !.buffer = buf],
              res |-> "RECEIVED_INVALID_HEADER", len |-> ParserReturn.len]

\* Variant: the frame is stored from its last index down.
write_index_backwards(mpl, mpb) == mpb % 256

\* Variant: the offset of the header byte is left out.
write_index_from_zero(mpl, mpb) == ((mpl + 1) - mpb) % 256

\* update(): const uint8_t write_index.
write_index(mpl, mpb) == (((mpl + 1) - mpb) + 1) % 256

\* Variant: the received FCS byte is included in the checksum.
fcs_matches_over_fcs(buf, mpl, wi) == checksum(buf, mpl + 2) = buf[wi]

\* Variant: the comparison is inverted.
fcs_matches_inverted(buf, mpl, wi) == checksum(buf, mpl + 1) # buf[wi]

\* update(): the checksum test, true when the FCS matches.
\* Framing::checksum(buffer, message_payload_length + 1) against
\* buffer[write_index].
fcs_matches(buf, mpl, wi) == checksum(buf, mpl + 1) = buf[wi]

\* Variant: the count is not decremented.
pending_after_stuck(mpb) == mpb

\* Variant: two bytes are counted for each byte received.
pending_after_by_two(mpb) == (mpb - 2) % 256

\* update(): message_pending_bytes -= 0x01.
pending_after(mpb) == (mpb - 1) % 256

\* Variant: every byte is taken as a header candidate.
update_wait_checksum_as_header(p, in) ==
    update_wait_header([p EXCEPT !.current_state = WAIT_HEADER], in)

\* update(), case State::WAIT_CHECKSUM.
update_wait_checksum(p, in) ==
    LET wi == write_index(p.message_payload_length, p.message_pending_bytes)
        buf == IF wi \in DOMAIN p.buffer
               THEN [p.buffer EXCEPT ![wi] = in]
               ELSE p.buffer
        pending == pending_after(p.message_pending_bytes)
        cmd_res ==
            CASE BitAnd(buf[0], 7) = CMD_SELECT -> "RECEIVED_CMD_SELECT"
              [] BitAnd(buf[0], 7) = CMD_WRITE -> "RECEIVED_CMD_WRITE"
              [] OTHER -> ParserReturn.res
    IN  IF pending # 0
        THEN [p |-> [p EXCEPT !.buffer = buf, !.message_pending_bytes = pending],
              res |-> "INSUFFICIENT_DATA", len |-> ParserReturn.len]
        ELSE [p |-> [p EXCEPT !.buffer = buf, !.message_pending_bytes = pending,
                              !.current_state = next_state(p.current_state)],
              res |-> IF ~fcs_matches(buf, p.message_payload_length, wi)
                      THEN "RECEIVED_CMD_INVALID_FCS"
                      ELSE cmd_res,
              len |-> p.message_payload_length]

\* Variant: the byte just received is returned as hdr.
returned_hdr_input(buf, in) == in

\* update(): rtn.hdr = buffer[0].
returned_hdr(buf, in) == buf[0]

\* Variant: the switch on current_state is missing, every call takes the
\* WAIT_HEADER case.
update_header_case_only(p, in) ==
    [p |-> update_wait_header(p, in).p,
     rtn |-> [res |-> update_wait_header(p, in).res,
              hdr |-> update_wait_header(p, in).p.buffer[0],
              len |-> update_wait_header(p, in).len]]

\* ParserReturn Parser::update(uint8_t input): the parser after the call and
\* the structure returned.  A current_state matching no case of the switch
\* leaves the parser and the value-initialised result as they are.
update(p, in) ==
    LET r == CASE p.current_state = WAIT_HEADER -> update_wait_header(p, in)
               [] p.current_state = WAIT_CHECKSUM -> update_wait_checksum(p, in)
               [] OTHER -> [p |-> p, res |-> ParserReturn.res,
                            len |-> ParserReturn.len]
    IN  [p |-> r.p,
         rtn |-> [res |-> r.res, hdr |-> returned_hdr(r.p.buffer, in),
                  len |-> r.len]]

\* Variant: the state is advanced instead of being set.
reset_state_advance(p) ==
    [p EXCEPT !.current_state = next_state(p.current_state)]

\* Variant: the counters are cleared, the state is left as it is.
reset_state_counters_only(p) ==
    [p EXCEPT !.message_payload_length = 0, !.message_pending_bytes = 0]

\* void Parser::reset_state()
reset_state(p) == [p EXCEPT !.current_state = STATE_START]

\* uint8_t* Parser::data(): the view starting at buffer + 1; data(p, n)[k] for
\* k in 1..n is the k-th byte of the view.
data(p, n) == [k \in 1..n |-> p.buffer[k]]

----------------------------------------------------------------------------
(* The caller: what the unit tests know about the protocol.                *)

SelectHeader == BitOr(CMD_BASE, CMD_SELECT)

WriteHeader(lc) == BitOr(BitOr(CMD_BASE, CMD_WRITE), ShiftLeft8(lc, 3))

WriteHeaders == {WriteHeader(lc) : lc \in 0..5}

CmdHeaders == {SelectHeader} \cup WriteHeaders

\* valid_bytes of the single-header test: SYS|ACK, SYS|NACK, CMD|SELECT and
\* CMD|WRITE with every length code 0..5.
ValidHeaders ==
    {BitOr(SYS_BASE, SYS_ACK), BitOr(SYS_BASE, SYS_NACK)} \cup CmdHeaders

\* Payload length of the frame a CMD header opens, as the frame generator
\* encodes it: one byte for SELECT, 2^length_code bytes for WRITE.
FrameLength(h) ==
    IF h = SelectHeader THEN 1
    ELSE 2 ^ ((h - WriteHeader(0)) \div 8)

\* The readiness probe of the tests, CMD|TYPE, a known-invalid header.
Probe == BitOr(CMD_BASE, CMD_TYPE)

\* Known-invalid header bytes: the probe, DATA_BASE (the filler of the
\* multiple-message test), and CMD|WRITE with the first length code that is
\* out of range.
InvalidSamples == {Probe, DATA_BASE, WriteHeader(6)}

HeaderBytes == ValidHeaders \cup InvalidSamples

\* Frame check sequence of a sequence of bytes, as the frame generator
\* appends it.
FCS(s) == checksum([i \in 0..(Len(s) - 1) |-> s[i + 1]], Len(s))

\* Framing::frame_sys_message
frame_sys_message(type) == <<BitOr(SYS_BASE, type)>>

\* Framing::frame_cmd_select_message
frame_cmd_select_message(mode) ==
    <<SelectHeader, mode, FCS(<<SelectHeader, mode>>)>>

\* Framing::frame_cmd_write_message, for a payload whose length is 2^lc.
frame_cmd_write_message(payload, lc) ==
    <<WriteHeader(lc)>> \o payload \o <<FCS(<<WriteHeader(lc)>> \o payload)>>

\* The next byte starts a new message: nothing was fed yet, the last call
\* reported something other than INSUFFICIENT_DATA, or the parser was reset.
Boundary == op \in {"init", "reset"} \/ rtn.res # "INSUFFICIENT_DATA"

\* The byte passed to the last update() call.
input == sent[Len(sent)]

\* The caller is inside a CMD frame and has k bytes of it still to send.
FrameLeft ==
    IF ~Boundary /\ sent[1] \in CmdHeaders
    THEN FrameLength(sent[1]) + 2 - Len(sent)
    ELSE 0

\* The bytes the caller may feed next.  A new parser is probed with every
\* byte value; the checksum position of the first frame takes every byte
\* value too, after which the caller only probes.
NextInputs ==
    IF wild THEN {Probe}
    ELSE IF Boundary
    THEN (IF op = "init" THEN Byte ELSE HeaderBytes)
         \ (IF frames >= MaxFrames THEN CmdHeaders ELSE {})
    ELSE IF FrameLeft > 1
         THEN IF FrameLength(sent[1]) = 1
              THEN PayloadBytes
              ELSE {Len(sent) - 1}
         ELSE IF FrameLeft = 1
              THEN IF frames = 1
                   THEN Byte
                   ELSE {(FCS(sent) + d) % 256 : d \in Deltas}
              ELSE PayloadBytes

----------------------------------------------------------------------------
(* State machine.                                                          *)

Init ==
    /\ buffer = Constructed.buffer
    /\ message_payload_length = Constructed.message_payload_length
    /\ message_pending_bytes = Constructed.message_pending_bytes
    /\ current_state = Constructed.current_state
    /\ rtn = [res |-> "NONE", hdr |-> 0, len |-> 0]
    /\ op = "init"
    /\ called_in = STATE_START
    /\ sent = <<>>
    /\ after_terminal = FALSE
    /\ first_call = FALSE
    /\ frames = 0
    /\ wild = FALSE
    /\ last_accepted = -1
    /\ abandoned = <<0, 0>>
    /\ queue = <<>>
    /\ kind = "NONE"
    /\ msgs = <<>>
    /\ terms = <<>>

\* The object the variables hold.
Self ==
    Parser(buffer, message_payload_length, message_pending_bytes, current_state)

\* p.update(b), with what any caller records about the call; r is what the
\* call does to the parser and what it returns.
Call(b) ==
    \E r \in {update(Self, b)} :
        /\ buffer' = r.p.buffer
        /\ message_payload_length' = r.p.message_payload_length
        /\ message_pending_bytes' = r.p.message_pending_bytes
        /\ current_state' = r.p.current_state
        /\ rtn' = r.rtn
        /\ op' = "update"
        /\ called_in' = current_state
        /\ sent' = IF Boundary THEN <<b>> ELSE Append(sent, b)
        /\ after_terminal' = (op = "update" /\ rtn.res # "INSUFFICIENT_DATA")
        /\ first_call' = (op = "init")
        /\ last_accepted' =
              IF current_state = WAIT_HEADER /\ analyze_header(b).header_valid
              THEN b ELSE last_accepted
        /\ abandoned' =
              IF op # "reset" /\ Boundary THEN <<0, 0>> ELSE abandoned

\* p.update(b), b any byte the caller may feed.
Update(b) ==
    /\ Call(b)
    /\ frames' = IF Boundary /\ b \in CmdHeaders THEN frames + 1 ELSE frames
    /\ wild' = (wild \/ (FrameLeft = 1 /\ (b - FCS(sent)) % 256 \notin Deltas))
    /\ UNCHANGED <<queue, kind, msgs, terms>>

\* p.reset_state()
Reset ==
    LET p == reset_state(Self)
    IN  /\ ~wild
        /\ current_state = WAIT_CHECKSUM => frames <= MaxCutFrame
        /\ buffer' = p.buffer
        /\ message_payload_length' = p.message_payload_length
        /\ message_pending_bytes' = p.message_pending_bytes
        /\ current_state' = p.current_state
        /\ op' = "reset"
        /\ sent' = <<>>
        /\ after_terminal' = FALSE
        /\ first_call' = FALSE
        /\ abandoned' =
              IF current_state = WAIT_CHECKSUM
              THEN <<message_payload_length, message_pending_bytes>>
              ELSE IF op = "reset" THEN abandoned ELSE <<0, 0>>
        /\ UNCHANGED <<rtn, called_in, frames, wild, last_accepted,
                       queue, kind, msgs, terms>>

Next ==
    \/ \E b \in NextInputs : Update(b)
    \/ Reset

Spec == Init /\ [][Next]_vars

----------------------------------------------------------------------------
(* A second caller, the multiple-message tests: a stream of well-formed     *)
(* messages and filler bytes fed to one parser, with no reset.              *)

\* Number of messages in the stream, fillers not counted.
MaxMsgs == 5

\* Modes of the CMD|SELECT frames of the stream.
StreamModes == {0, 1}

\* The counting payload of 2^lc bytes.
Iota(lc) == [k \in 1..(2 ^ lc) |-> k - 1]

\* The messages the stream is made of, each with the outcome its last byte
\* must yield.
StreamMessages ==
    {[bytes |-> frame_sys_message(SYS_ACK), kind |-> "RECEIVED_SYS_ACK"],
     [bytes |-> frame_sys_message(SYS_NACK), kind |-> "RECEIVED_SYS_NACK"]}
    \cup {[bytes |-> frame_cmd_select_message(m), kind |-> "RECEIVED_CMD_SELECT"] :
             m \in StreamModes}
    \cup {[bytes |-> frame_cmd_write_message(Iota(lc), lc),
           kind |-> "RECEIVED_CMD_WRITE"] : lc \in 0..5}

\* add_invalid_bytes: one filler byte.
Filler == [bytes |-> <<DATA_BASE>>, kind |-> "RECEIVED_INVALID_HEADER"]

\* Feed byte b of the stream; left is what remains of its message, k the
\* outcome the message must end in.
Feed(b, left, k) ==
    /\ Call(b)
    /\ queue' = left
    /\ kind' = k
    /\ msgs' = IF left = <<>> /\ k # Filler.kind THEN Append(msgs, k) ELSE msgs
    /\ terms' = IF rtn'.res \notin {"INSUFFICIENT_DATA", "RECEIVED_INVALID_HEADER"}
                THEN Append(terms, rtn'.res) ELSE terms
    /\ UNCHANGED <<frames, wild>>

\* The first byte of the next message of the stream.
StartMessage(m) ==
    /\ queue = <<>>
    /\ m = Filler \/ Len(msgs) < MaxMsgs
    /\ Feed(Head(m.bytes), Tail(m.bytes), m.kind)

\* The next byte of the message being fed.
ContinueMessage ==
    /\ queue # <<>>
    /\ Feed(Head(queue), Tail(queue), kind)

NextStream ==
    \/ \E m \in StreamMessages \cup {Filler} : StartMessage(m)
    \/ ContinueMessage

SpecStream == Init /\ [][NextStream]_vars

----------------------------------------------------------------------------
(* Vocabulary of the claims.                                               *)

Terminal == ParseResult \ {"INSUFFICIENT_DATA"}

CmdOutcomes ==
    {"RECEIVED_CMD_SELECT", "RECEIVED_CMD_WRITE", "RECEIVED_CMD_INVALID_FCS"}

\* The bytes fed since the last message boundary open with header h.
Feeding(h) == op = "update" /\ sent # <<>> /\ sent[1] = h

\* Those bytes are a whole CMD frame: header, payload, one more byte.
WholeFrame == Len(sent) = FrameLength(sent[1]) + 2

\* The payload the caller put into that frame, indexed like the payload view.
SentPayload == [k \in 1..FrameLength(sent[1]) |-> sent[k + 1]]

\* The last byte of that frame is the frame check sequence of the others.
GoodFCS == sent[Len(sent)] = FCS(SubSeq(sent, 1, Len(sent) - 1))

\* What a frame opened by header h and fed to a parser waiting for a header
\* must yield, byte by byte, when its last byte is the correct checksum:
\* INSUFFICIENT_DATA before the last byte, outcome res on the last byte, with
\* len and the payload view as sent.  No byte of the frame is left over.
FrameYields(h, res) ==
    Feeding(h) =>
       /\ Len(sent) <= FrameLength(h) + 2
       /\ Len(sent) < FrameLength(h) + 2 => rtn.res = "INSUFFICIENT_DATA"
       /\ (WholeFrame /\ GoodFCS) =>
             /\ rtn.res = res
             /\ rtn.len = FrameLength(h)
             /\ data(Self, rtn.len) = SentPayload

----------------------------------------------------------------------------
(* C1: fed as the first byte to a freshly constructed parser, a byte yields *)
(* an outcome other than RECEIVED_INVALID_HEADER iff it is one of the 9     *)
(* catalog headers; SYS|ACK yields RECEIVED_SYS_ACK, SYS|NACK yields        *)
(* RECEIVED_SYS_NACK, the CMD headers yield INSUFFICIENT_DATA.              *)
C1_FirstByteClassified ==
    /\ Cardinality(ValidHeaders) = 9
    /\ first_call =>
          /\ (rtn.res # "RECEIVED_INVALID_HEADER") <=> (input \in ValidHeaders)
          /\ input = BitOr(SYS_BASE, SYS_ACK) => rtn.res = "RECEIVED_SYS_ACK"
          /\ input = BitOr(SYS_BASE, SYS_NACK) => rtn.res = "RECEIVED_SYS_NACK"
          /\ input \in CmdHeaders => rtn.res = "INSUFFICIENT_DATA"
          /\ input \notin ValidHeaders => rtn.res = "RECEIVED_INVALID_HEADER"

\* A new parser was fed CMD|WRITE with the largest length code and asks for more.
C1_Witness ==
    first_call /\ input = WriteHeader(5) /\ rtn.res = "INSUFFICIENT_DATA"

(* C2: a valid CMD|SELECT frame fed to a parser waiting for a header yields *)
(* INSUFFICIENT_DATA on its first two bytes and RECEIVED_CMD_SELECT on the  *)
(* third, with len = 1 and the payload view equal to the payload byte sent. *)
C2_SelectFrame ==
    /\ FrameLength(SelectHeader) = 1
    /\ FrameYields(SelectHeader, "RECEIVED_CMD_SELECT")

\* A whole valid SELECT frame carrying a non-zero mode was fed and recognised.
C2_Witness ==
    /\ Feeding(SelectHeader) /\ WholeFrame /\ GoodFCS
    /\ sent[2] # 0
    /\ rtn.res = "RECEIVED_CMD_SELECT"

(* C3: for each L in {1,2,4,8,16,32}, a valid CMD|WRITE frame with L payload *)
(* bytes fed to a parser waiting for a header yields INSUFFICIENT_DATA on    *)
(* each of the first L+1 bytes and RECEIVED_CMD_WRITE on byte L+2, with      *)
(* len = L and the payload view equal to the payload bytes sent, in order.   *)
C3_WriteFrame ==
    /\ {FrameLength(h) : h \in WriteHeaders} = {1, 2, 4, 8, 16, 32}
    /\ \A h \in WriteHeaders : FrameYields(h, "RECEIVED_CMD_WRITE")

\* A whole valid WRITE frame of 32 payload bytes was fed and recognised.
C3_Witness ==
    /\ Feeding(WriteHeader(5)) /\ WholeFrame /\ GoodFCS
    /\ Len(sent) = 34
    /\ rtn.res = "RECEIVED_CMD_WRITE"

(* C4: a well-formed CMD frame whose last byte is replaced by any other byte *)
(* value ends in RECEIVED_CMD_INVALID_FCS on that same last byte, after      *)
(* INSUFFICIENT_DATA on every byte before it, with the len and the payload   *)
(* view of the uncorrupted frame.                                            *)
C4_CorruptedFCS ==
    \A h \in CmdHeaders :
       Feeding(h) =>
          /\ Len(sent) <= FrameLength(h) + 2
          /\ Len(sent) < FrameLength(h) + 2 => rtn.res = "INSUFFICIENT_DATA"
          /\ (WholeFrame /\ ~GoodFCS) =>
                /\ rtn.res = "RECEIVED_CMD_INVALID_FCS"
                /\ rtn.len = FrameLength(h)
                /\ data(Self, rtn.len) = SentPayload

\* A WRITE frame of 8 payload bytes ended in a checksum byte that is off by
\* something other than one.
C4_Witness ==
    /\ Feeding(WriteHeader(3)) /\ WholeFrame /\ ~GoodFCS
    /\ wild
    /\ rtn.res = "RECEIVED_CMD_INVALID_FCS"

(* C5: after update returns any terminal outcome the parser is waiting for a *)
(* header: a known-invalid header byte fed as the very next byte yields      *)
(* RECEIVED_INVALID_HEADER.                                                  *)
C5_ReadyAfterTerminal ==
    /\ (op = "update" /\ rtn.res \in Terminal) => current_state = WAIT_HEADER
    /\ (op = "update" /\ after_terminal) =>
          /\ called_in = WAIT_HEADER
          /\ input \notin ValidHeaders => rtn.res = "RECEIVED_INVALID_HEADER"

\* The probe byte was fed right after a terminal outcome, a CMD frame having
\* been consumed to its last byte before.
C5_Witness ==
    /\ op = "update" /\ after_terminal
    /\ input = Probe
    /\ frames > 0 /\ rtn.hdr = Probe
    /\ message_pending_bytes = 0
    /\ rtn.res = "RECEIVED_INVALID_HEADER"

(* C6: in a stream that is a concatenation of well-formed messages, with     *)
(* filler bytes between messages, each filler yields RECEIVED_INVALID_HEADER, *)
(* every byte of a message but its last yields INSUFFICIENT_DATA, and the     *)
(* outcomes other than these two are one per message, of the message's kind,  *)
(* in stream order.                                                           *)
C6_StreamOutcomes ==
    op = "update" =>
       /\ queue # <<>> => rtn.res = "INSUFFICIENT_DATA"
       /\ queue = <<>> => rtn.res = kind
       /\ terms = msgs

\* The stream of the tests: a WRITE frame, a SYS|ACK, a SYS|NACK and two SELECT
\* frames were fed in this order, with a filler fed last.
C6_Witness ==
    /\ msgs = <<"RECEIVED_CMD_WRITE", "RECEIVED_SYS_ACK", "RECEIVED_SYS_NACK",
               "RECEIVED_CMD_SELECT", "RECEIVED_CMD_SELECT">>
    /\ terms = msgs
    /\ kind = Filler.kind /\ queue = <<>>
    /\ rtn.res = "RECEIVED_INVALID_HEADER"

\* update() fed, one call after the other, the bytes of s to a parser that was
\* just constructed: the parser after the last call and what that call returned.
RECURSIVE Replay(_)
Replay(s) ==
    IF Len(s) = 1
    THEN update(Constructed, s[1])
    ELSE update(Replay(SubSeq(s, 1, Len(s) - 1)).p, s[Len(s)])

(* C7: after reset_state cut a frame short, the next byte is a header         *)
(* candidate and the bytes fed from there on yield, call by call, the same    *)
(* outcome, hdr and len as on a new parser, and on a RECEIVED_CMD_* outcome   *)
(* the same payload view, whatever the length and progress of the frame cut.  *)
C7_ResetMidFrame ==
    (op = "update" /\ abandoned # <<0, 0>>) =>
       /\ Len(sent) = 1 => called_in = WAIT_HEADER
       /\ rtn = Replay(sent).rtn
       /\ rtn.res \in CmdOutcomes =>
             data(Self, rtn.len) = data(Replay(sent).p, rtn.len)

\* A 32-byte WRITE frame was cut with 20 bytes pending, and a valid 2-byte
\* WRITE frame fed after the reset was recognised.
C7_Witness ==
    /\ op = "update" /\ abandoned = <<32, 20>>
    /\ Feeding(WriteHeader(1)) /\ WholeFrame /\ GoodFCS
    /\ rtn.res = "RECEIVED_CMD_WRITE" /\ rtn.len = 2

(* C8: the hdr update returns is the byte at buffer index 0: the input byte   *)
(* itself for a call made in WAIT_HEADER, the header of the frame in progress *)
(* for a call made while payload and checksum are accumulated, the terminal   *)
(* call included.                                                             *)
C8_HdrIsBufferZero ==
    /\ rtn.res # "NONE" => rtn.hdr = buffer[0]
    /\ op = "update" =>
          /\ called_in = WAIT_HEADER => rtn.hdr = input
          /\ called_in = WAIT_CHECKSUM =>
                Len(sent) > 1 /\ sent[1] \in CmdHeaders /\ rtn.hdr = sent[1]

\* The terminal call of a 16-byte WRITE frame, whose last byte is not the header.
C8_Witness ==
    /\ op = "update" /\ called_in = WAIT_CHECKSUM
    /\ rtn.res \in CmdOutcomes
    /\ rtn.hdr = WriteHeader(4) /\ input # rtn.hdr

(* C9 as stated: once a header was accepted, the hdr of every result is the   *)
(* most recently accepted header byte.                                        *)
C9_HdrIsLastAccepted ==
    (op = "update" /\ last_accepted \in Byte) => rtn.hdr = last_accepted

(* C9 amended: the hdr of a result is the most recently accepted header byte  *)
(* for every outcome but RECEIVED_INVALID_HEADER; with RECEIVED_INVALID_HEADER *)
(* it is the rejected byte itself.                                            *)
C9_HdrIsLastCandidate ==
    op = "update" =>
       /\ rtn.res # "RECEIVED_INVALID_HEADER" => rtn.hdr = last_accepted
       /\ rtn.res = "RECEIVED_INVALID_HEADER" =>
             rtn.hdr = input /\ input \notin ValidHeaders

\* The probe was rejected after a SYS|ACK had been accepted: hdr is the probe.
C9_Witness ==
    /\ op = "update" /\ rtn.res = "RECEIVED_INVALID_HEADER"
    /\ last_accepted = BitOr(SYS_BASE, SYS_ACK)
    /\ rtn.hdr = Probe

(* C10: with a RECEIVED_CMD_* outcome, len is the payload length encoded in   *)
(* hdr, 2^((hdr >> 3) & 7), one of 1,2,4,8,16,32, and 1 for                   *)
(* RECEIVED_CMD_SELECT; RECEIVED_CMD_SELECT comes only with the CMD|SELECT    *)
(* header and RECEIVED_CMD_WRITE only with a CMD|WRITE header.                *)
C10_LenFromHdr ==
    rtn.res \in CmdOutcomes =>
       /\ rtn.len = 2 ^ ((rtn.hdr \div 8) % 8)
       /\ rtn.len \in {1, 2, 4, 8, 16, 32}
       /\ rtn.res = "RECEIVED_CMD_SELECT" =>
             rtn.len = 1 /\ rtn.hdr = SelectHeader
       /\ rtn.res = "RECEIVED_CMD_WRITE" => rtn.hdr \in WriteHeaders

\* A 16-byte frame ended with a bad checksum and reports len 16.
C10_Witness ==
    /\ rtn.res = "RECEIVED_CMD_INVALID_FCS"
    /\ rtn.hdr = WriteHeader(4) /\ rtn.len = 16

(* C11: analyze_header gives payload_length 0 to SYS|ACK and SYS|NACK, 1 to   *)
(* CMD|SELECT and 2^length_code, one of 1,2,4,8,16,32, to CMD|WRITE with      *)
(* length code 0..5; a byte fed in WAIT_HEADER moves the parser to            *)
(* WAIT_CHECKSUM exactly when it is a valid header with payload_length > 0,   *)
(* and then message_pending_bytes = message_payload_length + 1.               *)
C11_HeaderAccepted ==
    (op = "update" /\ called_in = WAIT_HEADER) =>
       LET info == analyze_header(input)
       IN  /\ input \in {BitOr(SYS_BASE, SYS_ACK), BitOr(SYS_BASE, SYS_NACK)} =>
                 info.header_valid /\ info.payload_length = 0
           /\ input = SelectHeader =>
                 info.header_valid /\ info.payload_length = 1
           /\ \A lc \in 0..5 :
                 input = WriteHeader(lc) =>
                    info.header_valid /\ info.payload_length = 2 ^ lc
           /\ info.header_valid <=> input \in ValidHeaders
           /\ info.payload_length \in {0, 1, 2, 4, 8, 16, 32}
           /\ (current_state = WAIT_CHECKSUM) <=>
                 (info.header_valid /\ info.payload_length > 0)
           /\ current_state = WAIT_CHECKSUM =>
                 /\ message_payload_length = info.payload_length
                 /\ message_pending_bytes = message_payload_length + 1
                 /\ rtn.res = "INSUFFICIENT_DATA"

\* The second frame of a run opens with CMD|WRITE of 32 bytes: 33 bytes pending.
C11_Witness ==
    /\ op = "update" /\ called_in = WAIT_HEADER
    /\ input = WriteHeader(5) /\ frames = 2
    /\ current_state = WAIT_CHECKSUM
    /\ message_payload_length = 32 /\ message_pending_bytes = 33

(* C12: a byte that is not a valid header, fed in WAIT_HEADER, yields         *)
(* RECEIVED_INVALID_HEADER and leaves current_state, message_payload_length   *)
(* and message_pending_bytes as they were; the byte fed right after an        *)
(* invalid header, with no reset_state in between, is classified as a header  *)
(* candidate, as a new parser would classify it.                              *)
C12_InvalidHeaderStays ==
    [][/\ (op' = "update" /\ current_state = WAIT_HEADER
              /\ input' \notin ValidHeaders) =>
             /\ rtn'.res = "RECEIVED_INVALID_HEADER"
             /\ current_state' = WAIT_HEADER
             /\ message_payload_length' = message_payload_length
             /\ message_pending_bytes' = message_pending_bytes
       /\ (op = "update" /\ rtn.res = "RECEIVED_INVALID_HEADER"
              /\ op' = "update") =>
             /\ called_in' = WAIT_HEADER
             /\ rtn' = update(Constructed, input').rtn]_vars

\* Two terminal outcomes in a row, the second an invalid header, after a frame
\* was cut by reset_state: the counters of the cut frame are still there.
C12_Witness ==
    /\ op = "update" /\ after_terminal
    /\ rtn.res = "RECEIVED_INVALID_HEADER" /\ input = DATA_BASE
    /\ current_state = WAIT_HEADER
    /\ message_payload_length = 4 /\ message_pending_bytes = 3

(* C13: reset_state leaves the parser in WAIT_HEADER and every buffer byte    *)
(* as it was; called in WAIT_HEADER it leaves the whole parser object as it   *)
(* was, so that every later update returns what it would have returned        *)
(* without the call; a second reset_state right after it changes nothing.     *)
C13_ResetState ==
    [][op' = "reset" =>
          LET before == Self
              after == Self'
          IN  /\ after.current_state = WAIT_HEADER
              /\ after.buffer = before.buffer
              /\ before.current_state = WAIT_HEADER =>
                    /\ after = before
                    /\ \A b \in HeaderBytes : update(after, b) = update(before, b)
              /\ reset_state(after) = after]_vars

\* reset_state was called 9 bytes before the end of a 16-byte WRITE frame; the
\* payload bytes stored so far are still in the buffer.
C13_Witness ==
    /\ op = "reset" /\ abandoned = <<16, 9>>
    /\ current_state = WAIT_HEADER
    /\ buffer[0] = WriteHeader(4) /\ buffer[8] = 7
    /\ message_pending_bytes = 9

(* C14: on the call that receives the last pending byte of a CMD frame the    *)
(* outcome is RECEIVED_CMD_INVALID_FCS iff the received byte, stored at       *)
(* buffer index payload_length + 1, differs from the checksum of the          *)
(* payload_length + 1 bytes buffer[0..payload_length]; otherwise it is        *)
(* RECEIVED_CMD_SELECT or RECEIVED_CMD_WRITE.                                 *)
C14_FcsDecides ==
    (op = "update" /\ called_in = WAIT_CHECKSUM /\ current_state = WAIT_HEADER) =>
       LET expected == FCS([k \in 1..(message_payload_length + 1) |-> buffer[k - 1]])
       IN  /\ Len(sent) = message_payload_length + 2
           /\ buffer[message_payload_length + 1] = input
           /\ \A k \in 1..(message_payload_length + 1) : buffer[k - 1] = sent[k]
           /\ (rtn.res = "RECEIVED_CMD_INVALID_FCS") <=> (input # expected)
           /\ input = expected =>
                 rtn.res \in {"RECEIVED_CMD_SELECT", "RECEIVED_CMD_WRITE"}

\* The second frame of a run, 2 payload bytes, ends in a checksum byte off by one.
C14_Witness ==
    /\ op = "update" /\ called_in = WAIT_CHECKSUM /\ current_state = WAIT_HEADER
    /\ frames = 2 /\ message_payload_length = 2
    /\ input = (FCS(SubSeq(sent, 1, 3)) + 1) % 256
    /\ rtn.res = "RECEIVED_CMD_INVALID_FCS"

\* The buffer index the last update() call wrote to: 0 for a call made in
\* WAIT_HEADER; for a call made in WAIT_CHECKSUM the write index of the call,
\* ((payload_length + 1) - pending) + 1 with the pending count before the call,
\* which is one more than the count after it.
LastWriteIndex ==
    IF called_in = WAIT_HEADER
    THEN 0
    ELSE ((message_payload_length + 1) - (message_pending_bytes + 1)) + 1

(* C15: every buffer write of update targets an index inside the 34-byte      *)
(* buffer: index 0 for a call made in WAIT_HEADER, an index in                *)
(* 1..payload_length+1 for a call made in WAIT_CHECKSUM; the write index,     *)
(* computed without the reduction modulo 256, neither goes below 0 nor        *)
(* beyond the last buffer index.                                              *)
C15_WriteInBuffer ==
    /\ DOMAIN buffer = 0..33
    /\ current_state = WAIT_CHECKSUM =>
          LET raw == ((message_payload_length + 1) - message_pending_bytes) + 1
          IN  /\ (message_payload_length + 1) - message_pending_bytes >= 0
              /\ raw = write_index(message_payload_length, message_pending_bytes)
              /\ raw \in 1..(message_payload_length + 1)
              /\ raw \in DOMAIN buffer
    /\ op = "update" =>
          /\ LastWriteIndex \in DOMAIN buffer
          /\ called_in = WAIT_CHECKSUM =>
                LastWriteIndex \in 1..(message_payload_length + 1)
          /\ buffer[LastWriteIndex] = input

\* The last byte of a 32-byte frame was written to the last index of the buffer.
C15_Witness ==
    /\ op = "update" /\ called_in = WAIT_CHECKSUM
    /\ LastWriteIndex = BUFFER_LEN - 1
    /\ buffer[BUFFER_LEN - 1] = input
    /\ message_pending_bytes = 0

(* C16: while a frame is accumulated, message_pending_bytes is                *)
(* payload_length + 1 after the header and one less after each further call,  *)
(* stays within 1..payload_length+1 in WAIT_CHECKSUM and never wraps; a call  *)
(* made in WAIT_CHECKSUM reports a RECEIVED_CMD_* outcome exactly when it     *)
(* brings the count to 0, which is call payload_length + 1 after the header.  *)
C16_PendingCountsDown ==
    /\ current_state = WAIT_CHECKSUM =>
          /\ op = "update" /\ rtn.res = "INSUFFICIENT_DATA"
          /\ message_pending_bytes \in 1..(message_payload_length + 1)
          /\ message_pending_bytes = (message_payload_length + 1) - (Len(sent) - 1)
    /\ (op = "update" /\ called_in = WAIT_CHECKSUM) =>
          /\ message_pending_bytes \in 0..message_payload_length
          /\ message_pending_bytes = (message_payload_length + 1) - (Len(sent) - 1)
          /\ (rtn.res \in CmdOutcomes) <=> (message_pending_bytes = 0)
          /\ (rtn.res \in CmdOutcomes) <=> (Len(sent) - 1 = message_payload_length + 1)
          /\ (rtn.res \notin CmdOutcomes) => rtn.res = "INSUFFICIENT_DATA"
          /\ (current_state = WAIT_HEADER) <=> (message_pending_bytes = 0)

\* Half of an 8-byte frame has been received: 5 bytes are pending.
C16_Witness ==
    /\ op = "update" /\ called_in = WAIT_CHECKSUM /\ current_state = WAIT_CHECKSUM
    /\ message_payload_length = 8 /\ Len(sent) = 5
    /\ message_pending_bytes = 5

(* C17: message_payload_length is 0 or one of 1,2,4,8,16,32; it is 0 exactly  *)
(* as long as no CMD header has been accepted, and one of 1,2,4,8,16,32 in    *)
(* WAIT_CHECKSUM.                                                             *)
C17_PayloadLengthValues ==
    /\ message_payload_length \in {0, 1, 2, 4, 8, 16, 32}
    /\ (message_payload_length = 0) <=> (frames = 0)
    /\ current_state = WAIT_CHECKSUM =>
          message_payload_length \in {1, 2, 4, 8, 16, 32}

\* A SYS|ACK was received after a 4-byte frame: the length of the frame stays.
C17_Witness ==
    /\ op = "update" /\ rtn.res = "RECEIVED_SYS_ACK"
    /\ frames = 1 /\ message_payload_length = 4
    /\ current_state = WAIT_HEADER

\* The write cursor: 1 when the CMD header has just been accepted, one more
\* after each byte stored.
Cursor == Len(sent)

(* C18: in WAIT_CHECKSUM the write index update computes,                     *)
(* ((payload_length + 1) - pending) + 1, equals a cursor that starts at 1     *)
(* when the CMD header is accepted and advances by 1 with each byte stored;   *)
(* the k-th byte after the header is at buffer index k, the payload at        *)
(* indices 1..payload_length and the checksum byte at payload_length + 1.     *)
C18_WriteCursor ==
    /\ current_state = WAIT_CHECKSUM =>
          write_index(message_payload_length, message_pending_bytes) = Cursor
    /\ (op = "update" /\ sent[1] \in CmdHeaders) =>
          /\ \A k \in 1..(Len(sent) - 1) : buffer[k] = sent[k + 1]
          /\ called_in = WAIT_CHECKSUM => LastWriteIndex = Cursor - 1
          /\ rtn.res \in CmdOutcomes =>
                /\ data(Self, message_payload_length) = SentPayload
                /\ buffer[message_payload_length + 1] = sent[Len(sent)]

\* Ten bytes of a 16-byte frame are stored; the next goes to index 11.
C18_Witness ==
    /\ current_state = WAIT_CHECKSUM /\ message_payload_length = 16
    /\ Cursor = 11 /\ buffer[10] = 9
    /\ write_index(message_payload_length, message_pending_bytes) = 11

(* C19: no state is unrecoverable.  The parser is in WAIT_HEADER or in        *)
(* WAIT_CHECKSUM; in WAIT_CHECKSUM between 1 and 33 bytes are pending and     *)
(* update, given a valid header or a known-invalid byte, brings the count     *)
(* down by one and the parser to WAIT_HEADER exactly when the count reaches   *)
(* 0, as does every call that was made in WAIT_CHECKSUM: with n bytes pending *)
(* the parser is back in WAIT_HEADER after exactly n calls, at most 33, with  *)
(* no reset_state.  A frame with a bad checksum is consumed to its last byte, *)
(* on which the parser is back in WAIT_HEADER.                                *)
C19_BackToHeader ==
    /\ current_state \in {WAIT_HEADER, WAIT_CHECKSUM}
    /\ current_state = WAIT_CHECKSUM =>
          /\ message_pending_bytes \in 1..33
          /\ \A b \in HeaderBytes :
                \A q \in {update(Self, b).p} :
                    /\ q.message_pending_bytes = message_pending_bytes - 1
                    /\ q.current_state \in {WAIT_HEADER, WAIT_CHECKSUM}
                    /\ (q.current_state = WAIT_HEADER) <=>
                          (q.message_pending_bytes = 0)
    /\ (op = "update" /\ called_in = WAIT_CHECKSUM) =>
          /\ message_pending_bytes \in 0..32
          /\ (current_state = WAIT_HEADER) <=> (message_pending_bytes = 0)
          /\ (current_state = WAIT_HEADER) <=> (rtn.res \in CmdOutcomes)
    /\ (op = "update" /\ rtn.res = "RECEIVED_CMD_INVALID_FCS") =>
          /\ current_state = WAIT_HEADER
          /\ Len(sent) = FrameLength(sent[1]) + 2

\* A 32-byte frame that ended in a bad checksum: 34 bytes consumed, and the
\* parser waits for a header.
C19_Witness ==
    /\ op = "update" /\ rtn.res = "RECEIVED_CMD_INVALID_FCS"
    /\ Len(sent) = 34 /\ sent[1] = WriteHeader(5)
    /\ current_state = WAIT_HEADER

(* C20: in WAIT_CHECKSUM with more than one byte pending, update returns      *)
(* INSUFFICIENT_DATA and stays in WAIT_CHECKSUM for each of the 256 byte      *)
(* values, valid and invalid headers included: the byte is stored at the      *)
(* write index and the header at index 0 is kept.                             *)
C20_PayloadNotClassified ==
    /\ (current_state = WAIT_CHECKSUM /\ message_pending_bytes > 1) =>
          \A b \in Byte :
             \A r \in {update(Self, b)} :
                 /\ r.rtn.res = "INSUFFICIENT_DATA"
                 /\ r.rtn.hdr = buffer[0]
                 /\ r.p.current_state = WAIT_CHECKSUM
                 /\ r.p.buffer = [buffer EXCEPT ![Cursor] = b]
    /\ (op = "update" /\ called_in = WAIT_CHECKSUM /\ message_pending_bytes > 0) =>
          /\ rtn.res = "INSUFFICIENT_DATA"
          /\ current_state = WAIT_CHECKSUM
          /\ buffer[0] = sent[1]

\* The byte SYS|ACK was received as the fifth payload byte of an 8-byte frame.
C20_Witness ==
    /\ op = "update" /\ called_in = WAIT_CHECKSUM
    /\ input = BitOr(SYS_BASE, SYS_ACK) /\ input \in ValidHeaders
    /\ message_payload_length = 8 /\ message_pending_bytes = 4
    /\ rtn.res = "INSUFFICIENT_DATA" /\ current_state = WAIT_CHECKSUM
    /\ buffer[5] = input

(* C21: the two subtype switches of update that have no default always match  *)
(* a case: a valid header with payload_length 0 has subtype ACK or NACK, and   *)
(* a frame that ends with a matching checksum has subtype SELECT or WRITE at   *)
(* buffer index 0; res is never left at its value-initialised default, and     *)
(* update returns INSUFFICIENT_DATA iff the parser is in WAIT_CHECKSUM after   *)
(* the call.                                                                   *)
C21_SwitchesMatch ==
    op = "update" =>
       /\ (rtn.res = "INSUFFICIENT_DATA") <=> (current_state = WAIT_CHECKSUM)
       /\ (called_in = WAIT_HEADER /\ analyze_header(input).header_valid
              /\ analyze_header(input).payload_length = 0) =>
             /\ BitAnd(header_sanitized(input), 7) \in {SYS_ACK, SYS_NACK}
             /\ rtn.res \in {"RECEIVED_SYS_ACK", "RECEIVED_SYS_NACK"}
       /\ (called_in = WAIT_CHECKSUM /\ message_pending_bytes = 0
              /\ fcs_matches(buffer, message_payload_length, LastWriteIndex)) =>
             /\ BitAnd(buffer[0], 7) \in {CMD_SELECT, CMD_WRITE}
             /\ rtn.res \in {"RECEIVED_CMD_SELECT", "RECEIVED_CMD_WRITE"}

\* The second frame of a run, one payload byte under a CMD|WRITE header, ended
\* with a matching checksum and went through the CMD switch.
C21_Witness ==
    /\ op = "update" /\ called_in = WAIT_CHECKSUM /\ frames = 2
    /\ message_pending_bytes = 0
    /\ fcs_matches(buffer, message_payload_length, LastWriteIndex)
    /\ BitAnd(buffer[0], 7) = CMD_WRITE /\ message_payload_length = 1
    /\ rtn.res = "RECEIVED_CMD_WRITE"

(* C22: a call made in WAIT_HEADER returns RECEIVED_INVALID_HEADER,           *)
(* RECEIVED_SYS_ACK, RECEIVED_SYS_NACK or INSUFFICIENT_DATA; a call made in   *)
(* WAIT_CHECKSUM returns INSUFFICIENT_DATA or a RECEIVED_CMD_* outcome; the   *)
(* call before a RECEIVED_CMD_* outcome was an update, not a reset_state,     *)
(* and it returned INSUFFICIENT_DATA.                                         *)
C22_OutcomesByState ==
    op = "update" =>
       /\ called_in \in {WAIT_HEADER, WAIT_CHECKSUM}
       /\ called_in = WAIT_HEADER =>
             rtn.res \in {"RECEIVED_INVALID_HEADER", "RECEIVED_SYS_ACK",
                          "RECEIVED_SYS_NACK", "INSUFFICIENT_DATA"}
       /\ called_in = WAIT_CHECKSUM =>
             rtn.res \in {"INSUFFICIENT_DATA"} \cup CmdOutcomes
       /\ rtn.res \in CmdOutcomes =>
             /\ called_in = WAIT_CHECKSUM
             /\ Len(sent) >= 2
             /\ ~after_terminal /\ ~first_call

\* A SELECT frame, the shortest there is, was recognised on its third byte
\* right after a reset_state and with no terminal outcome in between.
C22_Witness ==
    /\ op = "update" /\ called_in = WAIT_CHECKSUM
    /\ rtn.res = "RECEIVED_CMD_SELECT" /\ Len(sent) = 3
    /\ abandoned # <<0, 0>> /\ ~after_terminal

(* C23: parsing does not depend on what came before a frame boundary.  The    *)
(* parser, whatever frames, counters and buffer contents its history left,    *)
(* returns for every call since the last boundary the res, hdr and len that a *)
(* newly constructed parser returns when fed the same bytes, and after a      *)
(* RECEIVED_CMD_* outcome buffer indices 1..len are the same in both; any two *)
(* parsers waiting for a header therefore agree with each other.              *)
C23_HistoryIndependent ==
    op = "update" =>
       \A fresh \in {Replay(sent)} :
          /\ rtn = fresh.rtn
          /\ current_state = fresh.p.current_state
          /\ rtn.res \in CmdOutcomes =>
                \A k \in 1..rtn.len : buffer[k] = fresh.p.buffer[k]

\* A SELECT frame was recognised by a parser that had received a 32-byte frame
\* before, whose bytes are still in the buffer beyond index 2.
C23_Witness ==
    /\ op = "update" /\ rtn.res = "RECEIVED_CMD_SELECT"
    /\ frames = 2 /\ abandoned = <<0, 0>>
    /\ buffer[33] # Indeterminate /\ buffer[20] = 19
    /\ Replay(sent).p.buffer[20] = Indeterminate
    /\ rtn = Replay(sent).rtn

(* C24: each update call changes the buffer at one index only, where it       *)
(* stores the input: index 0 for a call made in WAIT_HEADER, the write index  *)
(* for a call made in WAIT_CHECKSUM; every other index keeps its byte, so the *)
(* payload of the last frame outlives SYS and invalid-header bytes.           *)
C24_OneIndexWritten ==
    [][op' = "update" =>
          /\ current_state = WAIT_HEADER =>
                buffer' = [buffer EXCEPT ![0] = input']
          /\ current_state = WAIT_CHECKSUM =>
                /\ write_index(message_payload_length, message_pending_bytes)
                      \in 1..(BUFFER_LEN - 1)
                /\ buffer' =
                      [buffer EXCEPT
                         ![write_index(message_payload_length,
                                       message_pending_bytes)] = input']]_vars

\* The probe byte was rejected after an 8-byte frame had been received: the
\* payload of the frame is still in the buffer.
C24_Witness ==
    /\ op = "update" /\ called_in = WAIT_HEADER
    /\ rtn.res = "RECEIVED_INVALID_HEADER" /\ buffer[0] = Probe
    /\ message_payload_length = 8 /\ message_pending_bytes = 0
    /\ data(Self, 8) = Iota(3)

\* The values of State.
States == {STATE_START, WAIT_HEADER, WAIT_CHECKSUM, STATE_END}

(* C25: next_state maps a state other than STATE_END to the state with the    *)
(* next numeric value and STATE_END to STATE_START; on the two states of the  *)
(* parser it maps WAIT_HEADER to WAIT_CHECKSUM and back, so applying it twice *)
(* gives the state it started from; the state after an update call is the     *)
(* state before it or next_state of it.                                       *)
C25_NextStateToggles ==
    /\ States = {WAIT_HEADER, WAIT_CHECKSUM}
    /\ \A st \in States :
          /\ st # STATE_END => next_state(st) = st + 1
          /\ st = STATE_END => next_state(st) = STATE_START
          /\ next_state(next_state(st)) = st
    /\ next_state(WAIT_HEADER) = WAIT_CHECKSUM
    /\ next_state(WAIT_CHECKSUM) = WAIT_HEADER
    /\ current_state \in States
    /\ op = "update" =>
          /\ current_state # called_in => current_state = next_state(called_in)
          /\ (called_in = WAIT_HEADER /\ rtn.res = "INSUFFICIENT_DATA") =>
                current_state = next_state(called_in)
          /\ (called_in = WAIT_CHECKSUM /\ rtn.res # "INSUFFICIENT_DATA") =>
                current_state = next_state(called_in)

\* The wrap-around: the last byte of a 4-byte frame took the parser from
\* STATE_END to STATE_START.
C25_Witness ==
    /\ op = "update" /\ called_in = STATE_END
    /\ current_state = STATE_START /\ current_state = next_state(called_in)
    /\ rtn.res = "RECEIVED_CMD_WRITE" /\ rtn.len = 4

====
